---------------------------- MODULE Spec2Model ----------------------------
(***************************************************************************)
(* The breath-cycle engine of in-out, in its two variants:                 *)
(*   "App"  - src/src/App.tsx      (setPhase wrapper, BREATHES = 1)        *)
(*   "Vite" - src/vite.config.ts   (phase effect,     BREATHES = 10)       *)
(*                                                                         *)
(* Units.  Durations and timestamps are counted in half seconds (500 ms):  *)
(* config.in = 3.5 s is 7, a press of +0.5 is +1, the limit 100 s is 200,  *)
(* and delta / (duration * 1_000) with delta in ms is delta / duration in  *)
(* half seconds.  value is an exact fraction <<numerator, denominator>> in *)
(* lowest terms.  Frequencies are in hundredths of a hertz.                *)
(*                                                                         *)
(* The reactive library's scheduling (solid-js 1.4 and later) is part of   *)
(* each handler: a signal write is visible to reads at once; outside       *)
(* batch() it runs the memos and then the effects that read the signal     *)
(* before the write returns; inside batch() they run when the batch ends;  *)
(* a createSelector accessor returns the comparison against the value its  *)
(* node computed last, so inside a batch it still answers for the value    *)
(* before the write.                                                       *)
(***************************************************************************)
EXTENDS Integers, Sequences, FiniteSets, TLC

VARIABLES
    variant,        \* which of the two source files is running
    config,         \* createStore {in, out}
    value,          \* signal value (progress)
    mode,           \* signal mode
    breatheCount,   \* signal breatheCount (App) / count (Vite)
    phase,          \* signal phase
    audioApi,       \* memo audioApi: TRUE once it holds an api object
    contexts,       \* number of AudioContext objects constructed so far
    previous,       \* closure variable previous: <<>> is undefined, <<t>> is t
    requests,       \* frame callbacks the host holds pending
    animationFrame, \* TRUE when the handle animationFrame names a pending request
    interval,       \* the running setInterval of a held button: <<>> or <<key, delta>>
    clock,          \* timestamp of the last frame the host delivered
    cues,           \* frequencies played by the most recent frame callback
    flips,          \* writes to phase made by the most recent frame callback
    entries,        \* flips into phase in since the session started
    resumed,        \* TRUE from a paused -> playing click until the next frame
    clicks,         \* play button clicks so far
    inputs          \* handleInput calls that reached props.onInput so far

vars == <<variant, config, value, mode, breatheCount, phase, audioApi, contexts,
          previous, requests, animationFrame, interval, clock, cues, flips,
          entries, resumed, clicks, inputs>>

-----------------------------------------------------------------------------
(* Bounds of the model *)

MaxTime == 22

MaxDelta == 2

MaxClicks == 3

MaxInputs == 1

MaxInputsConfig == 4

-----------------------------------------------------------------------------
(* Program constants *)

BREATHES_PER_SESSION_App == 1

BREATHES_PER_SESSION_Vite == 10

FrequencyC2 == 13081

FrequencyGSharp3 == 20765

DefaultIn == 7

DefaultOut == 24

DurationLimit == 200

Variants == {"App", "Vite"}

BREATHES_PER_SESSION(v) ==
    IF v = "App" THEN BREATHES_PER_SESSION_App ELSE BREATHES_PER_SESSION_Vite

-----------------------------------------------------------------------------
(* Exact fractions *)

Abs(n) == IF n < 0 THEN -n ELSE n

RECURSIVE GCD(_, _)
GCD(a, b) == IF b = 0 THEN a ELSE GCD(b, a % b)

Fraction(n, d) == LET g == GCD(Abs(n), d) IN <<n \div g, d \div g>>

Plus(v, n, d) == Fraction(v[1] * d + n * v[2], v[2] * d)

AtLeastOne(v) == v[1] >= v[2]

AtMostZero(v) == v[1] <= 0

LessThanOne(v) == v[1] < v[2]

MoreThanZero(v) == v[1] > 0

-----------------------------------------------------------------------------
(* The program state as one record, so that each function of the source is *)
(* an operator from state to state.                                        *)

State ==
    [config |-> config, value |-> value, mode |-> mode,
     breatheCount |-> breatheCount, phase |-> phase, audioApi |-> audioApi,
     contexts |-> contexts, previous |-> previous, requests |-> requests,
     animationFrame |-> animationFrame, cues |-> cues, flips |-> flips]

Commit(s) ==
    /\ config' = s.config
    /\ value' = s.value
    /\ mode' = s.mode
    /\ breatheCount' = s.breatheCount
    /\ phase' = s.phase
    /\ audioApi' = s.audioApi
    /\ contexts' = s.contexts
    /\ previous' = s.previous
    /\ requests' = s.requests
    /\ animationFrame' = s.animationFrame
    /\ cues' = s.cues
    /\ flips' = s.flips

-----------------------------------------------------------------------------
(* Host: requestAnimationFrame / cancelAnimationFrame *)

\* mutant: cancelAnimationFrame is given a stale handle and cancels nothing
cancelNothing(s) == [s EXCEPT !.animationFrame = FALSE]

requestAnimationFrame(s) ==
    [s EXCEPT !.requests = @ + 1, !.animationFrame = TRUE]

cancelAnimationFrame(s) ==
    IF s.animationFrame
    THEN [s EXCEPT !.requests = @ - 1, !.animationFrame = FALSE]
    ELSE s

\* The host runs the oldest pending callback; the handle names the newest one.
deliverFrame(s) ==
    [s EXCEPT !.requests = @ - 1,
              !.animationFrame = IF s.requests = 1 THEN FALSE ELSE @]

-----------------------------------------------------------------------------
(* Audio *)

\* createMemo(on(() => mode() !== 'initial', createAudioApi, {defer: true})):
\* the memo reads mode, so it runs again on every change of mode, and on()
\* calls createAudioApi on every run but the deferred first one.
audioApiMemo(s) == [s EXCEPT !.audioApi = TRUE, !.contexts = @ + 1]

\* audioApi()?.play(frequency)
play(s, frequency) ==
    IF s.audioApi THEN [s EXCEPT !.cues = Append(@, frequency)] ELSE s

\* isPhaseSelected(key) against the value the selector's node holds
isPhaseSelected(node, key) == node = key

PhaseFrequency(node) ==
    IF isPhaseSelected(node, "in") THEN FrequencyC2 ELSE FrequencyGSharp3

direction(p) == IF isPhaseSelected(p, "in") THEN 1 ELSE -1

-----------------------------------------------------------------------------
(* The mode effect and what a change of mode runs *)

\* mutant: the stop branch forgets `previous = undefined`
modeEffectKeepsPrevious(s) ==
    IF s.mode = "playing"
    THEN requestAnimationFrame(s)
    ELSE cancelAnimationFrame(s)

\* mutant: the stop branch forgets cancelAnimationFrame
modeEffectNoCancel(s) ==
    IF s.mode = "playing"
    THEN requestAnimationFrame(s)
    ELSE [s EXCEPT !.previous = <<>>]

modeEffect(s) ==
    IF s.mode = "playing"
    THEN requestAnimationFrame(s)
    ELSE cancelAnimationFrame([s EXCEPT !.previous = <<>>])

\* memos run before effects
modeChanged(s) == modeEffect(audioApiMemo(s))

\* mutant: the target is compared one breath late
ReachedTargetLate(count, v) == count = BREATHES_PER_SESSION(v) + 1

ReachedTarget(count, v) == count = BREATHES_PER_SESSION(v)

\* mutant: the count is not reset when the session completes
countBreathNoReset(s, v) ==
    LET counted == [s EXCEPT !.breatheCount = @ + 1]
    IN  IF ReachedTarget(counted.breatheCount, v)
        THEN [counted EXCEPT !.mode = "completed"]
        ELSE counted

\* if (newPhase === 'in') { count + 1; if (count === BREATHES) {completed; 0} }
\* Returns the state with the signals written; whether mode was written is
\* read off the mode field by the caller, which runs modeChanged.
countBreath(s, v) ==
    LET counted == [s EXCEPT !.breatheCount = @ + 1]
    IN  IF ReachedTarget(counted.breatheCount, v)
        THEN [counted EXCEPT !.mode = "completed", !.breatheCount = 0]
        ELSE counted

\* App.tsx setPhase: one batch; the selector node is brought up to date only
\* when the batch ends, so isPhaseSelected still compares with the old phase.
setPhaseApp(s, newPhase) ==
    LET node == s.phase
        written == [s EXCEPT !.phase = newPhase, !.flips = @ + 1]
        played == play(written, PhaseFrequency(node))
        counted == IF newPhase = "in" THEN countBreath(played, "App") ELSE played
    IN  IF counted.mode # s.mode THEN modeChanged(counted) ELSE counted

\* vite.config.ts effect on(phase): runs after the batch of animate, with the
\* selector node already updated; a write to mode inside it runs the mode
\* memo and effect right after the effect returns.
phaseEffect(s) ==
    LET node == s.phase
        played == play(s, PhaseFrequency(node))
        counted == IF isPhaseSelected(node, "in") THEN countBreath(played, "Vite") ELSE played
    IN  IF counted.mode # s.mode THEN modeChanged(counted) ELSE counted

-----------------------------------------------------------------------------
(* animate *)

\* `if (previous)`, `previous && ...`: undefined and 0 are both falsy
Truthy(p) == p # <<>> /\ p[1] # 0

\* mutant: the durations are read once, when the component is set up
IntegrateCached(v, delta, dir, duration) ==
    Plus(v, delta * dir, IF dir > 0 THEN DefaultIn ELSE DefaultOut)

\* value += (delta * direction()) / (duration * 1_000)
Integrate(v, delta, dir, duration) == Plus(v, delta * dir, duration)

\* mutant: the else branch of the boundary check is missing
CrossedUpOnly(p, v) == direction(p) > 0 /\ AtLeastOne(v)

\* mutant: strict comparisons at the boundaries
CrossedStrict(p, v) ==
    IF direction(p) > 0 THEN v[1] > v[2] ELSE v[1] < 0

\* if (direction() > 0) { if (value() >= 1) ... } else { if (value() <= 0) ... }
Crossed(p, v) ==
    IF direction(p) > 0 THEN AtLeastOne(v) ELSE AtMostZero(v)

Other(p) == IF p = "in" THEN "out" ELSE "in"

animateApp(s0, time) ==
    LET s == requestAnimationFrame(s0)
        integrated ==
            IF Truthy(s.previous)
            THEN LET moved == [s EXCEPT !.value =
                        Integrate(@, time - s.previous[1], direction(s.phase),
                                  s.config[s.phase])]
                 IN  IF Crossed(moved.phase, moved.value)
                     THEN setPhaseApp(moved, Other(moved.phase))
                     ELSE moved
            ELSE s
    IN  [integrated EXCEPT !.previous = <<time>>]

\* mutant: `previous = time` is placed after the early return
animateViteStampsLate(s0, time) ==
    LET s == requestAnimationFrame(s0)
        delta == IF Truthy(s.previous) THEN time - s.previous[1] ELSE 0
    IN  IF delta = 0
        THEN s
        ELSE LET moved == [s EXCEPT !.previous = <<time>>, !.value =
                      Integrate(@, delta, direction(s.phase), s.config[s.phase])]
             IN  IF Crossed(moved.phase, moved.value)
                 THEN phaseEffect([moved EXCEPT !.phase = Other(@), !.flips = @ + 1])
                 ELSE moved

animateVite(s0, time) ==
    LET s == requestAnimationFrame(s0)
        delta == IF Truthy(s.previous) THEN time - s.previous[1] ELSE 0
        stamped == [s EXCEPT !.previous = <<time>>]
    IN  IF delta = 0
        THEN stamped
        ELSE LET moved == [stamped EXCEPT !.value =
                      Integrate(@, delta, direction(s.phase), s.config[s.phase])]
             IN  IF Crossed(moved.phase, moved.value)
                 THEN phaseEffect([moved EXCEPT !.phase = Other(@), !.flips = @ + 1])
                 ELSE moved

animate(s, time) ==
    IF variant = "App" THEN animateApp(s, time) ELSE animateVite(s, time)

-----------------------------------------------------------------------------
(* TimeControl *)

\* mutant: the bounds are compared inclusively
AcceptedInclusive(v, delta) ==
    IF delta < 0 THEN v + delta >= 0 ELSE v + delta <= DurationLimit

\* handleInput's guard: the press reaches props.onInput
Accepted(v, delta) ==
    IF delta < 0 THEN v + delta > 0 ELSE v + delta < DurationLimit

\* handleInput(delta) of the control bound to config[key]
handleInput(s, key, delta) ==
    IF Accepted(s.config[key], delta)
    THEN [s EXCEPT !.config[key] = @ + delta]
    ELSE s

-----------------------------------------------------------------------------
(* Initial states *)

\* Durations the controls can have been set to before the session starts.
InitConfigs ==
    {[in |-> DefaultIn, out |-> DefaultOut], [in |-> 1, out |-> 1]}

\* mutant: the memo lacks {defer: true} and builds the api when it is created
InitWithEager(configs, firstClock) ==
    /\ variant \in Variants
    /\ config \in configs
    /\ value = <<0, 1>>
    /\ mode = "initial"
    /\ breatheCount = 0
    /\ phase = "in"
    /\ audioApi = TRUE
    /\ contexts = 1
    /\ previous = <<>>
    /\ requests = 0
    /\ animationFrame = FALSE
    /\ interval = <<>>
    /\ clock = firstClock
    /\ cues = <<>>
    /\ flips = 0
    /\ entries = 0
    /\ resumed = FALSE
    /\ clicks = 0
    /\ inputs = 0

InitWith(configs, firstClock) ==
    /\ variant \in Variants
    /\ config \in configs
    /\ value = <<0, 1>>
    /\ mode = "initial"
    /\ breatheCount = 0
    /\ phase = "in"
    /\ audioApi = FALSE
    /\ contexts = 0
    /\ previous = <<>>
    /\ requests = 0
    /\ animationFrame = FALSE
    /\ interval = <<>>
    /\ clock = firstClock
    /\ cues = <<>>
    /\ flips = 0
    /\ entries = 0
    /\ resumed = FALSE
    /\ clicks = 0
    /\ inputs = 0

Init == InitWith(InitConfigs, 0)

-----------------------------------------------------------------------------
(* Actions *)

\* mutant: the toggle tests for paused instead of playing
NextModePausesUnlessPaused(m) == IF m = "paused" THEN "playing" ELSE "paused"

\* onClick of the play button
NextMode(m) == IF m = "playing" THEN "paused" ELSE "playing"

Click ==
    /\ clicks < MaxClicks
    /\ Commit(modeChanged([State EXCEPT !.mode = NextMode(mode)]))
    /\ clicks' = clicks + 1
    /\ resumed' = (mode = "paused")
    /\ entries' = IF mode = "completed" THEN 0 ELSE entries
    /\ UNCHANGED <<variant, interval, clock, inputs>>

\* The host delivers a frame with timestamp time to the pending callback.
Frame(time) ==
    /\ requests > 0
    /\ LET s == animate([deliverFrame(State) EXCEPT !.cues = <<>>, !.flips = 0], time)
       IN  /\ Commit(s)
           /\ entries' = IF s.phase = "in" /\ phase = "out" THEN entries + 1 ELSE entries
    /\ clock' = time
    /\ resumed' = FALSE
    /\ UNCHANGED <<variant, interval, clicks, inputs>>

Tick == \E time \in (clock + 1)..(clock + MaxDelta) : time <= MaxTime /\ Frame(time)

Keys == {"in", "out"}

Deltas == {-1, 1}

\* onPointerDown: handlePointer = handleInput + setInterval
PointerDown(limit) ==
    \E key \in Keys, delta \in Deltas :
        /\ interval = <<>>
        /\ Accepted(config[key], delta) => inputs < limit
        /\ Commit(handleInput(State, key, delta))
        /\ interval' = <<key, delta>>
        /\ inputs' = IF Accepted(config[key], delta) THEN inputs + 1 ELSE inputs
        /\ UNCHANGED <<variant, clock, entries, resumed, clicks>>

\* the interval callback, every 250 ms while the button is held
IntervalFire(limit) ==
    /\ interval # <<>>
    /\ Accepted(config[interval[1]], interval[2]) => inputs < limit
    /\ Commit(handleInput(State, interval[1], interval[2]))
    /\ inputs' = IF Accepted(config[interval[1]], interval[2]) THEN inputs + 1 ELSE inputs
    /\ UNCHANGED <<variant, interval, clock, entries, resumed, clicks>>

\* pointerup / pointerleave: clearInterval
PointerUp ==
    /\ interval # <<>>
    /\ interval' = <<>>
    /\ UNCHANGED <<variant, config, value, mode, breatheCount, phase, audioApi,
                   contexts, previous, requests, animationFrame, clock, cues,
                   flips, entries, resumed, clicks, inputs>>

Next ==
    \/ Click
    \/ Tick
    \/ PointerDown(MaxInputs)
    \/ IntervalFire(MaxInputs)
    \/ PointerUp

Spec == Init /\ [][Next]_vars

-----------------------------------------------------------------------------
(* The session of the worked example: in = 4 s, the first frame carries     *)
(* timestamp 0 and a frame arrives every 500 ms.                            *)

ExampleConfigs == {[in |-> DefaultIn + 1, out |-> DefaultOut]}

InitZero == InitWith(ExampleConfigs, -1)

TickEvery == (clock + 1 <= MaxTime) /\ Frame(clock + 1)

NextZero ==
    \/ Click
    \/ TickEvery
    \/ PointerDown(MaxInputs + 1)
    \/ IntervalFire(MaxInputs + 1)
    \/ PointerUp

SpecZero == InitZero /\ [][NextZero]_vars

-----------------------------------------------------------------------------
(* The duration controls alone, started from durations at their limits.    *)

BoundaryConfigs ==
    {[in |-> DefaultIn, out |-> DefaultOut],
     [in |-> 1, out |-> DurationLimit - 1],
     [in |-> DurationLimit - 1, out |-> 1]}

InitConfig == InitWith(BoundaryConfigs, 0)

NextConfig ==
    \/ Click
    \/ PointerDown(MaxInputsConfig)
    \/ IntervalFire(MaxInputsConfig)
    \/ PointerUp

SpecConfig == InitConfig /\ [][NextConfig]_vars

-----------------------------------------------------------------------------
(* C1 *)

InUnitInterval(v) == v[1] >= 0 /\ v[1] <= v[2]

\* C1 as stated: after every tick progress lies in [0, 1].
C1_ProgressInUnitInterval == InUnitInterval(value)

\* C1 amended: after every tick progress is below 1 while the phase is in
\* and above 0 while the phase is out; a tick that crosses a boundary leaves
\* the unclamped sum, which is >= 1 (or <= 0) by as much as its delta
\* overshoots.
C1_ProgressBoundedAhead ==
    /\ phase = "in" => LessThanOne(value)
    /\ phase = "out" => MoreThanZero(value)

\* a tick has overshot the upper boundary: progress is above 1
C1_Witness == phase = "out" /\ value[1] > value[2] /\ clock > 0

-----------------------------------------------------------------------------
(* C2 *)

\* C2: a tick flips the phase and plays exactly one cue when it ends with
\* progress >= 1 in phase in or progress <= 0 in phase out, and otherwise
\* changes no phase and plays no cue; it never flips twice.
C2_OneFlipPerCrossing ==
    [][clock' # clock =>
        LET crossing == \/ phase = "in" /\ value'[1] >= value'[2]
                        \/ phase = "out" /\ value'[1] <= 0
        IN  /\ flips' <= 1
            /\ crossing => phase' # phase /\ flips' = 1 /\ Len(cues') = 1
            /\ ~crossing => phase' = phase /\ flips' = 0 /\ cues' = <<>>]_vars

\* a tick whose delta is twice the phase duration has flipped once
C2_Witness == flips = 1 /\ Len(cues) = 1 /\ phase = "out" /\ value = <<2, 1>>

-----------------------------------------------------------------------------
(* C3 *)

\* C3: mode is completed exactly from the tick that makes the Nth flip into
\* phase in of the session, N = BREATHES_PER_SESSION, and the count is 0 then;
\* before it the count equals the flips into phase in made so far.
C3_CompletedOnNthEntry ==
    /\ mode = "completed" =>
          entries = BREATHES_PER_SESSION(variant) /\ breatheCount = 0
    /\ mode # "completed" =>
          entries < BREATHES_PER_SESSION(variant) /\ breatheCount = entries

\* ten breaths with a pause and a resume among them
C3_Witness == mode = "completed" /\ variant = "Vite" /\ clicks = 3

-----------------------------------------------------------------------------
(* C4 *)

\* C4: the first tick after a resume changes neither progress, phase nor
\* count and only records its timestamp; a tick that follows another tick
\* of the run advances progress by its own delta over the phase duration.
C4_ResumeBaseline ==
    [][clock' # clock =>
        /\ resumed =>
              /\ value' = value /\ phase' = phase /\ breatheCount' = breatheCount
              /\ previous' = <<clock'>>
        /\ (~resumed /\ previous # <<>>) =>
              value' = Plus(value, (clock' - clock) * (IF phase = "in" THEN 1 ELSE -1),
                            config[phase])
        /\ mode = "playing"]_vars

\* resumed, and at least one tick after the resume's baseline tick
C4_Witness ==
    /\ clicks = 3 /\ mode = "playing" /\ ~resumed
    /\ previous # <<>> /\ value # <<0, 1>>

-----------------------------------------------------------------------------
(* C5 *)

\* C5: whenever the loop has stopped (paused or completed) previous is unset.
C5_StoppedMeansUnset == mode \in {"paused", "completed"} => previous = <<>>

-----------------------------------------------------------------------------
(* C6 *)

\* C6: while mode is not playing no frame callback is pending and no step
\* (click, duration edit) changes progress, phase or count.
C6_IdleFrozen ==
    [][mode # "playing" =>
        /\ requests = 0
        /\ clock' = clock
        /\ value' = value /\ phase' = phase /\ breatheCount' = breatheCount]_vars

\* paused in mid-phase with a duration edited
C6_Witness == mode = "paused" /\ inputs > 0 /\ value # <<0, 1>>

-----------------------------------------------------------------------------
(* C7 *)

-----------------------------------------------------------------------------
(* C8 *)

\* C8: with in = 4 s and frames at 0, 500, ..., 4000 ms of an uninterrupted
\* fresh session, after the frame at 4000 ms progress is 1, the phase is out
\* and exactly one cue was played by that frame.
C8_ExampleReachesOne ==
    (clock = 8 /\ clicks = 1 /\ inputs = 0) =>
        value = <<1, 1>> /\ phase = "out" /\ Len(cues) = 1

-----------------------------------------------------------------------------
(* C9 *)

\* C9: both durations stay strictly between 0 and 100 s.
C9_DurationsInRange ==
    \A key \in Keys : config[key] > 0 /\ config[key] < DurationLimit

\* in at 0.5 s, out at 99.5 s and the plus button of out held: the press
\* was not accepted
C9_Witness ==
    /\ config = [in |-> 1, out |-> DurationLimit - 1]
    /\ interval = <<"out", 1>>
    /\ inputs = 0

-----------------------------------------------------------------------------
(* C10 *)

\* C10: a cue played on a flip into out has the higher frequency and a cue
\* played on a flip into in the lower one.
C10_FrequencyOfNewPhase ==
    \A i \in 1..Len(cues) :
        cues[i] = IF phase = "out" THEN FrequencyGSharp3 ELSE FrequencyC2

-----------------------------------------------------------------------------
(* C11 *)

\* C11: a duration edit changes neither progress, phase, count, mode nor the
\* previous timestamp, and every integrating tick divides its delta by the
\* duration config holds for the current phase at that tick.
C11_EditKeepsProgress ==
    [][/\ config' # config =>
              UNCHANGED <<value, phase, breatheCount, mode, previous>>
       /\ (clock' # clock /\ previous # <<>>) =>
              value' = Plus(value,
                            (clock' - previous[1]) * (IF phase = "in" THEN 1 ELSE -1),
                            config[phase])]_vars

\* in was raised from 3.5 s to 4 s between two ticks of an unpaused run:
\* 1/7 was integrated before the edit and 1/8 after it
C11_Witness ==
    /\ mode = "playing" /\ clicks = 1 /\ inputs = 1
    /\ config = [in |-> DefaultIn + 1, out |-> DefaultOut]
    /\ value = <<15, 56>>

-----------------------------------------------------------------------------
(* C12 *)

\* C12: no AudioContext is constructed while mode is initial, none before the
\* first click, and every frame callback that flips the phase finds the api
\* and plays its cue.
C12_EmitterAfterActivation ==
    /\ mode = "initial" => contexts = 0 /\ ~audioApi
    /\ contexts > 0 => clicks > 0
    /\ flips > 0 => audioApi /\ Len(cues) = flips

\* the first flip of the first run, played on the api built by the first click
C12_Witness == contexts = 1 /\ clicks = 1 /\ flips = 1 /\ Len(cues) = 1

-----------------------------------------------------------------------------
(* C13 *)

\* C13: over any sequence of mode changes at most one AudioContext is
\* constructed.
C13_ConstructedAtMostOnce == contexts <= 1

-----------------------------------------------------------------------------
(* C14 *)

\* C14: between handlers exactly one frame callback is pending while mode is
\* playing, the one the handle names, and none otherwise.
C14_OneLoopIffPlaying ==
    /\ requests = (IF mode = "playing" THEN 1 ELSE 0)
    /\ animationFrame = (mode = "playing")

\* a session restarted after its completion, with one callback pending again
C14_Witness ==
    /\ mode = "playing" /\ requests = 1 /\ animationFrame
    /\ contexts = clicks + 1 /\ clicks >= 2 /\ clock > 0

-----------------------------------------------------------------------------
(* C15 *)

\* C15: the count changes only on a tick that flips the phase from out to
\* in, by +1 or by the reset to 0 that goes with completion; such a tick
\* always does one of the two; and between handlers
\* 0 <= count < BREATHES_PER_SESSION, so that "N to go" shows 1..BREATHES.
C15_CountSteps ==
    [][/\ breatheCount' # breatheCount =>
              clock' # clock /\ phase = "out" /\ phase' = "in"
       /\ (phase = "out" /\ phase' = "in") =>
              \/ breatheCount' = breatheCount + 1 /\ mode' = mode
              \/ breatheCount' = 0 /\ mode' = "completed"
       /\ breatheCount' >= 0
       /\ breatheCount' < BREATHES_PER_SESSION(variant)
       /\ mode' = "paused" =>
              BREATHES_PER_SESSION(variant) - breatheCount' \in
                  1..BREATHES_PER_SESSION(variant)]_vars

\* paused with one breath to go
C15_Witness ==
    /\ mode = "paused" /\ variant = "Vite"
    /\ breatheCount = BREATHES_PER_SESSION_Vite - 1

-----------------------------------------------------------------------------
(* Sessions without an end of time.  The program reads timestamps only     *)
(* through time - previous and the truthiness of previous, so the state    *)
(* after a frame is recorded with the time origin moved to that frame: the *)
(* last frame always carries timestamp 1 and a frame that comes delta      *)
(* later is handed clock + delta.  The count of clicks stops at MaxClicks  *)
(* and the count of constructed audio contexts at two.  The durations are  *)
(* set before the session starts: the shortest the controls allow, or a    *)
(* pair of unequal ones.  A pending callback that is not cancelled is      *)
(* called, again and again, and a paused session is resumed.               *)

Min(a, b) == IF a < b THEN a ELSE b

Rebased(s, delta) ==
    [s EXCEPT !.previous = IF @ = <<>> THEN @ ELSE <<@[1] - delta>>,
              !.contexts = Min(@, 2)]

LiveConfigs == {[in |-> 1, out |-> 1], [in |-> 2, out |-> 3]}

InitLive == InitWith(LiveConfigs, 1)

ClickLive ==
    /\ \E s \in {Rebased(modeChanged([State EXCEPT !.mode = NextMode(mode)]), 0)} :
           Commit(s)
    /\ clicks' = Min(clicks + 1, MaxClicks)
    /\ resumed' = (mode = "paused")
    /\ entries' = IF mode = "completed" THEN 0 ELSE entries
    /\ UNCHANGED <<variant, interval, clock, inputs>>

FrameLive(delta) ==
    /\ requests > 0
    /\ \E s \in {animate([deliverFrame(State) EXCEPT !.cues = <<>>, !.flips = 0],
                         clock + delta)} :
           /\ \E r \in {Rebased(s, delta)} : Commit(r)
           /\ entries' = IF s.phase = "in" /\ phase = "out" THEN entries + 1 ELSE entries
    /\ resumed' = FALSE
    /\ UNCHANGED <<variant, interval, clock, clicks, inputs>>

TickLive == \E delta \in 1..MaxDelta : FrameLive(delta)

Resume == mode = "paused" /\ ClickLive

NextLive ==
    \/ ClickLive
    \/ TickLive

SpecLive ==
    /\ InitLive
    /\ [][NextLive]_vars
    /\ SF_vars(TickLive)
    /\ WF_vars(Resume)

-----------------------------------------------------------------------------
(* C16 *)

\* C16 as stated: if frames keep arriving while playing and every pause is
\* followed by a resume, a playing session eventually becomes completed.
C16_EventuallyCompleted == (mode = "playing") ~> (mode = "completed")

\* C16 amended: if moreover the session is paused only finitely often, a
\* playing session eventually becomes completed, a restarted one included.
C16_CompletedIfPausesEnd ==
    <>[](mode # "paused") => ((mode = "playing") ~> (mode = "completed"))

\* the second session of ten breaths has completed
C16_Witness ==
    /\ mode = "completed" /\ variant = "Vite"
    /\ clicks = 2 /\ breatheCount = 0

=============================================================================
